---- MODULE Spec2Model ----
(***************************************************************************)
(* Model of EmployeeOrgApp (src/index.ts): an organisation chart held as a *)
(* graph of Employee objects, with move / undo / redo.                     *)
(*                                                                         *)
(* An Employee object is identified by its uniqueId.  A value of type      *)
(* Employee (a reference into an object graph) is a record                 *)
(*     [root |-> id of the referenced object,                              *)
(*      subs |-> the `subordinates` array of every object, by id]          *)
(* so that object graphs with cycles, which move() can build, are          *)
(* representable.  Objects that are no longer reachable from `root` stay   *)
(* in `subs` exactly as move() left them (nothing collects them); a JSON   *)
(* deep clone copies only what is reachable.  The `name` field is never    *)
(* read or written by the class and is left out.                           *)
(***************************************************************************)
EXTENDS Integers, Sequences, FiniteSets, TLC

\* Number of employees in the tree handed to the constructor.
NumEmployees == 3
\* Largest number of records the model lets the undo stack hold.
MaxHist == 2

Ids == 1..NumEmployees
\* The ids a caller may pass: every employee id and one id of no employee.
CallIds == 1..(NumEmployees + 1)
\* uniqueId of the example root object.
CeoId == 1

\* findEmployee / findEmployeeSupervisor return null.
Null == 0
\* The recursion never returns: RangeError, maximum call stack size exceeded.
Overflow == -1

RECURSIVE Filter(_, _)
\* subordinates.filter(sub => sub.uniqueId !== id)
Filter(seq, id) ==
  IF seq = <<>> THEN <<>>
  ELSE IF Head(seq) = id THEN Filter(Tail(seq), id)
       ELSE <<Head(seq)>> \o Filter(Tail(seq), id)

Range(seq) == {seq[i] : i \in 1..Len(seq)}

RECURSIVE ReachFrom(_, _, _)
\* The objects reachable from the objects in `todo` through subordinates.
ReachFrom(subs, todo, seen) ==
  IF todo = {} THEN seen
  ELSE LET n == CHOOSE x \in todo : TRUE
           new == Range(subs[n]) \ (seen \cup {n})
       IN ReachFrom(subs, (todo \ {n}) \cup new, seen \cup {n})

\* The objects of the graph an Employee reference reaches, itself included.
Reach(e) == ReachFrom(e.subs, {e.root}, {})

\* The proper descendants of object n.
Descendants(subs, n) == ReachFrom(subs, Range(subs[n]), {})

\* Some object reachable from the reference is its own descendant.
Circular(e) == \E n \in Reach(e) : n \in Descendants(e.subs, n)

RECURSIVE findEmployee(_, _, _, _)
RECURSIVE findEmployeeLoop(_, _, _, _)
\* findEmployee(root, id) on the object n; `path` holds the objects whose
\* calls are still on the stack.  A call on an object already on the stack
\* repeats that call and so never returns.
findEmployee(subs, n, id, path) ==
  IF n = id THEN n
  ELSE IF n \in path THEN Overflow
  ELSE findEmployeeLoop(subs, subs[n], id, path \cup {n})

\* The for-loop of findEmployee over the rest of root.subordinates.
findEmployeeLoop(subs, rest, id, path) ==
  IF rest = <<>> THEN Null
  ELSE LET found == findEmployee(subs, Head(rest), id, path)
       IN IF found # Null THEN found
          ELSE findEmployeeLoop(subs, Tail(rest), id, path)

RECURSIVE findEmployeeSupervisor(_, _, _, _)
RECURSIVE findEmployeeSupervisorLoop(_, _, _, _, _)
\* findEmployeeSupervisor(root, id) on the object n.
findEmployeeSupervisor(subs, n, id, path) ==
  IF subs[n] = <<>> THEN Null
  ELSE IF n \in path THEN Overflow
  ELSE findEmployeeSupervisorLoop(subs, n, subs[n], id, path \cup {n})

RECURSIVE findEmployeeSupervisorLoopShallow(_, _, _, _, _)
\* A loop that looks at the immediate subordinates only and never descends.
findEmployeeSupervisorLoopShallow(subs, n, rest, id, path) ==
  IF rest = <<>> THEN Null
  ELSE IF Head(rest) = id THEN n
  ELSE findEmployeeSupervisorLoopShallow(subs, n, Tail(rest), id, path)

\* The for-loop of findEmployeeSupervisor over the rest of root.subordinates.
findEmployeeSupervisorLoop(subs, n, rest, id, path) ==
  IF rest = <<>> THEN Null
  ELSE IF Head(rest) = id THEN n
  ELSE LET found == findEmployeeSupervisor(subs, Head(rest), id, path)
       IN IF found # Null THEN found
          ELSE findEmployeeSupervisorLoop(subs, n, Tail(rest), id, path)

\* JSON.parse(JSON.stringify(e)) of an acyclic graph: fresh objects for
\* everything e reaches, and nothing else.
JSONClone(e) ==
  LET copied == Reach(e)
  IN [root |-> e.root,
      subs |-> [i \in Ids |-> IF i \in copied THEN e.subs[i] ELSE <<>>]]

\* The reference to object n of the graph of e.
Ref(e, n) == [root |-> n, subs |-> e.subs]

\* What a call hands back: it returned, or the exception it threw.
Ok == "ok"
\* new Error("Employee or Supervisor not found")
NotFound == "Employee or Supervisor not found"
\* RangeError: Maximum call stack size exceeded
RangeError == "RangeError"
\* TypeError: Converting circular structure to JSON
TypeError == "TypeError"

\* A createUndoData that pushes the clone of the new supervisor before the
\* clone of the employee.
createUndoDataSwapped(cur, employee, supervisor) ==
  LET currentSupervisor ==
        findEmployeeSupervisor(cur.subs, cur.root, employee, {})
  IN IF currentSupervisor = Overflow THEN [result |-> RangeError, undoData |-> <<>>]
     ELSE IF Circular(cur) THEN [result |-> TypeError, undoData |-> <<>>]
     ELSE [result |-> Ok,
           undoData |->
             <<JSONClone(cur)>>
             \o (IF currentSupervisor # Null
                 THEN <<JSONClone(Ref(cur, currentSupervisor))>> ELSE <<>>)
             \o <<JSONClone(Ref(cur, supervisor))>>
             \o <<JSONClone(Ref(cur, employee))>>]

\* createUndoData(employee, supervisor) on the live graph `cur`: the array it
\* returns, or the exception that leaves it.
createUndoData(cur, employee, supervisor) ==
  LET currentSupervisor ==
        findEmployeeSupervisor(cur.subs, cur.root, employee, {})
  IN IF currentSupervisor = Overflow THEN [result |-> RangeError, undoData |-> <<>>]
     ELSE IF Circular(cur) THEN [result |-> TypeError, undoData |-> <<>>]
     ELSE [result |-> Ok,
           undoData |->
             <<JSONClone(cur)>>
             \o (IF currentSupervisor # Null
                 THEN <<JSONClone(Ref(cur, currentSupervisor))>> ELSE <<>>)
             \o <<JSONClone(Ref(cur, employee))>>
             \o <<JSONClone(Ref(cur, supervisor))>>]

\* A stack that adds at the wrong end: this.history.unshift(record).
HistoryUnshift(history, record) == <<record>> \o history

\* An assignment in place of the push: this.history = [record].
HistoryReplace(history, record) == <<record>>

\* this.history.push(record)
HistoryPush(history, record) == Append(history, record)

\* A move() that forgets to take the employee out of its current
\* supervisor's subordinates.
ReparentKeeping(cur, employeeID, supervisor) ==
  [root |-> cur.root,
   subs |-> [cur.subs EXCEPT ![supervisor] = Append(@, employeeID)]]

\* The mutation of move(): the employee leaves its current supervisor's
\* subordinates and is pushed onto the new supervisor's.
Reparent(cur, employeeID, supervisor) ==
  LET currentSupervisor ==
        findEmployeeSupervisor(cur.subs, cur.root, employeeID, {})
      removed ==
        IF currentSupervisor # Null
        THEN [cur.subs EXCEPT ![currentSupervisor] = Filter(@, employeeID)]
        ELSE cur.subs
  IN [root |-> cur.root,
      subs |-> [removed EXCEPT ![supervisor] = Append(@, employeeID)]]

\* One call of a method: the fields of the object afterwards and the outcome.
Outcome(cur, hist, redo, res) ==
  [current |-> cur, history |-> hist, redoStack |-> redo, result |-> res]

\* move(employeeID, supervisorID) on the object st.
move(st, employeeID, supervisorID) ==
  LET cur == st.current
      fail(res) == Outcome(st.current, st.history, st.redoStack, res)
      employee == findEmployee(cur.subs, cur.root, employeeID, {})
      supervisor == findEmployee(cur.subs, cur.root, supervisorID, {})
  IN IF employee = Overflow THEN fail(RangeError)
     ELSE IF supervisor = Overflow THEN fail(RangeError)
     ELSE IF employee = Null \/ supervisor = Null THEN fail(NotFound)
     ELSE LET made == createUndoData(cur, employee, supervisor)
          IN IF made.result # Ok THEN fail(made.result)
             ELSE Outcome(Reparent(cur, employeeID, supervisor),
                          HistoryPush(st.history,
                                      [move |-> "move", undoData |-> made.undoData]),
                          st.redoStack, Ok)

\* undo() reading the element that redo() reads: undoData[1].
UndoElementSecond(undoData) == undoData[2]

\* The element of undoData that undo() installs (undoData[0], sequences
\* here start at 1).
UndoElement(undoData) == undoData[1]

\* An undo() that hands the popped record to the redo stack.
undoFeedingRedo(st) ==
  IF Len(st.history) = 0 THEN Outcome(st.current, st.history, st.redoStack, Ok)
  ELSE LET lastAction == st.history[Len(st.history)]
           popped == SubSeq(st.history, 1, Len(st.history) - 1)
       IN Outcome(IF lastAction.move = "move"
                  THEN UndoElement(lastAction.undoData) ELSE st.current,
                  popped,
                  Append(st.redoStack,
                         [move |-> "move", redoData |-> lastAction.undoData]),
                  Ok)

\* An undo() without the test for an empty stack, reading the record that
\* pop() did not return.
undoUnguarded(st) ==
  IF Len(st.history) = 0
  THEN Outcome(st.current, st.history, st.redoStack, TypeError)
  ELSE LET lastAction == st.history[Len(st.history)]
           popped == SubSeq(st.history, 1, Len(st.history) - 1)
       IN Outcome(IF lastAction.move = "move"
                  THEN UndoElement(lastAction.undoData) ELSE st.current,
                  popped, st.redoStack, Ok)

\* An undo() that reads the last record and leaves it on the stack:
\* this.history[this.history.length - 1] in place of this.history.pop().
undoPeeking(st) ==
  IF Len(st.history) = 0 THEN Outcome(st.current, st.history, st.redoStack, Ok)
  ELSE LET lastAction == st.history[Len(st.history)]
       IN Outcome(IF lastAction.move = "move"
                  THEN UndoElement(lastAction.undoData) ELSE st.current,
                  st.history, st.redoStack, Ok)

\* undo() on the object st.
undo(st) ==
  IF Len(st.history) = 0 THEN Outcome(st.current, st.history, st.redoStack, Ok)
  ELSE LET lastAction == st.history[Len(st.history)]
           popped == SubSeq(st.history, 1, Len(st.history) - 1)
       IN Outcome(IF lastAction.move = "move"
                  THEN UndoElement(lastAction.undoData) ELSE st.current,
                  popped, st.redoStack, Ok)

\* redo() on the object st.
redo(st) ==
  IF Len(st.redoStack) = 0 THEN Outcome(st.current, st.history, st.redoStack, Ok)
  ELSE LET lastRedoAction == st.redoStack[Len(st.redoStack)]
           popped == SubSeq(st.redoStack, 1, Len(st.redoStack) - 1)
       IN IF lastRedoAction.move = "move"
          THEN Outcome(lastRedoAction.redoData[2],
                       HistoryPush(st.history,
                                   [move |-> "move",
                                    undoData |-> lastRedoAction.redoData]),
                       popped, Ok)
          ELSE Outcome(st.current, st.history, popped, Ok)

\* The subordinates of i under the parent assignment p, by ascending id.
RECURSIVE Ascending(_)
Ascending(set) ==
  IF set = {} THEN <<>>
  ELSE LET m == CHOOSE x \in set : \A y \in set : x <= y
       IN <<m>> \o Ascending(set \ {m})

\* The trees a caller may hand to the constructor: every employee but the
\* CEO has one supervisor, every id occurs once, all hang under the CEO.
\* The class only ever compares ids for equality, so one numbering per
\* ordered tree shape is kept: the ids run breadth-first, left to right.
ConstructorTrees ==
  LET others == Ids \ {CeoId}
      asTree(p) == [root |-> CeoId,
                    subs |-> [i \in Ids |-> Ascending({j \in others : p[j] = i})]]
      breadthFirst(p) == /\ \A j \in others : p[j] < j
                         /\ \A j, k \in others : j < k => p[j] <= p[k]
  IN {asTree(p) : p \in {q \in [others -> Ids] : breadthFirst(q)}}

VARIABLES
  ceo,        \* the public field ceo: the object given to the constructor
  current,    \* the private field current: the live graph
  history,    \* the private field history: the undo stack
  redoStack,  \* the private field redoStack
  origin,     \* where the objects of the live graph come from, and so who
              \* else holds them and sees move() change them in place
  result,     \* how the latest call ended: Ok or the exception thrown
  call,       \* the latest call: its method, and its arguments if it
              \* returned (of a call that threw, `result` keeps the exception)
  pending,    \* per move not yet undone: its arguments, and current and
              \* history as the move found them
  reverted    \* the entry of `pending` that the latest undo took back, while
              \* no move has been called since; NoMove otherwise

vars ==
  <<ceo, current, history, redoStack, origin, result, call, pending, reverted>>

\* The fields of the object in the current state.
This == [current |-> current, history |-> history, redoStack |-> redoStack]

\* No move is recorded as taken back.
NoMove == [immediate |-> FALSE, taken |-> <<>>]

\* The live graph is made of objects that nothing but `current` refers to:
\* a clone made for it, or an element of a record that has left its stack.
Unshared == [holder |-> "current", record |-> 0, element |-> 0]
\* The live graph is the very object that the field ceo refers to.
HeldByCeo == [holder |-> "ceo", record |-> 0, element |-> 0]
\* The live graph is the very object undoData[element - 1] of history[record - 1].
HeldByHistory(record, element) ==
  [holder |-> "history", record |-> record, element |-> element]

\* this.current = ceo, without the clone.
ConstructedByReference(c) == [current |-> c, origin |-> HeldByCeo]

\* The constructor's assignment to this.current.
Constructed(c) == [current |-> JSONClone(c), origin |-> Unshared]

\* new EmployeeOrgApp(ceo)
Init ==
  /\ ceo \in ConstructorTrees
  /\ current = Constructed(ceo).current
  /\ origin = Constructed(ceo).origin
  /\ history = <<>>
  /\ redoStack = <<>>
  /\ result = Ok
  /\ call = [op |-> "new", employeeID |-> Null, supervisorID |-> Null]
  /\ pending = <<>>
  /\ reverted = NoMove

\* app.move(employeeID, supervisorID).  move() changes the objects of the
\* live graph in place: whoever else holds them sees it.
MoveCall(employeeID, supervisorID) ==
  LET out == move(This, employeeID, supervisorID)
  IN /\ out.result = Ok => Len(history) < MaxHist
     /\ current' = out.current
     /\ history' =
          IF /\ out.result = Ok
             /\ origin.holder = "history"
             /\ origin.record <= Len(history)
          THEN [out.history EXCEPT
                  ![origin.record].undoData[origin.element] = out.current]
          ELSE out.history
     /\ ceo' = IF out.result = Ok /\ origin.holder = "ceo"
               THEN out.current ELSE ceo
     /\ redoStack' = out.redoStack
     /\ result' = out.result
     /\ origin' = origin
     /\ call' = IF out.result = Ok
                 THEN [op |-> "move", employeeID |-> employeeID,
                       supervisorID |-> supervisorID]
                 ELSE [op |-> "move", employeeID |-> Null,
                       supervisorID |-> Null]
     /\ pending' = IF out.result = Ok
                   THEN Append(pending,
                               [employeeID |-> employeeID,
                                supervisorID |-> supervisorID,
                                current |-> current, history |-> history])
                   ELSE pending
     /\ reverted' = NoMove

\* POST /move with any two ids in the body.
Move ==
  \E employeeID \in CallIds, supervisorID \in CallIds :
    MoveCall(employeeID, supervisorID)

\* The fields take the values undo() or redo() left them with; neither
\* changes an object in place.
Install(out) ==
  /\ current' = out.current
  /\ history' = out.history
  /\ redoStack' = out.redoStack
  /\ result' = out.result
  /\ UNCHANGED ceo

\* POST /undo: app.undo().  The live graph becomes undoData[0] of the last
\* record, which the undo stack holds for as long as that record is on it.
Undo ==
  LET out == undo(This)
  IN /\ Install(out)
     /\ origin' = IF Len(history) = 0 THEN origin
                  ELSE IF Len(out.history) >= Len(history)
                       THEN HeldByHistory(Len(history), 1)
                       ELSE Unshared
     /\ call' = [op |-> "undo", employeeID |-> Null, supervisorID |-> Null]
     /\ IF Len(history) > 0 /\ Len(pending) > 0
        THEN /\ pending' = SubSeq(pending, 1, Len(pending) - 1)
             /\ reverted' = [immediate |-> call.op = "move" /\ result = Ok,
                             taken |-> <<pending[Len(pending)]>>]
        ELSE /\ pending' = pending
             /\ reverted' = NoMove

\* POST /redo: app.redo().  The live graph becomes redoData[1] of the record
\* that redo() pushes onto the undo stack.
Redo ==
  LET out == redo(This)
  IN /\ Install(out)
     /\ origin' = IF Len(redoStack) = 0 THEN origin
                  ELSE IF Len(out.history) > Len(history)
                       THEN HeldByHistory(Len(out.history), 2)
                       ELSE origin
     /\ call' = [op |-> "redo", employeeID |-> Null, supervisorID |-> Null]
     /\ UNCHANGED <<pending, reverted>>

Next == Move \/ Undo \/ Redo

Spec == Init /\ [][Next]_vars

\* The caller's guard: the employee is not the root, and the new supervisor
\* is neither the employee nor one of its descendants.
Guarded(cur, employeeID, supervisorID) ==
  /\ employeeID # cur.root
  /\ supervisorID # employeeID
  /\ employeeID \in Ids => supervisorID \notin Descendants(cur.subs, employeeID)

\* POST /move from a caller that only issues guarded moves.
GuardedMove ==
  \E employeeID \in CallIds, supervisorID \in CallIds :
    /\ Guarded(current, employeeID, supervisorID)
    /\ MoveCall(employeeID, supervisorID)

GuardedNext == GuardedMove \/ Undo \/ Redo

\* The object under a caller that only issues guarded moves.
GuardedSpec == Init /\ [][GuardedNext]_vars

(***************************************************************************)
(* Vocabulary of the properties.                                           *)
(***************************************************************************)

\* Two references are deep-equal: same root, same objects below it, and the
\* same subordinates, in the same order, at each of them.
DeepEqual(a, b) ==
  /\ a.root = b.root
  /\ Reach(a) = Reach(b)
  /\ \A n \in Reach(a) : a.subs[n] = b.subs[n]

\* The id resolves in the live graph: findEmployee returns an object.
Resolves(cur, id) == findEmployee(cur.subs, cur.root, id, {}) \in Ids

\* The places where id stands in a subordinates array of the live tree.
Positions(cur, id) ==
  {pos \in Reach(cur) \X (1..NumEmployees + 1) :
     /\ pos[2] <= Len(cur.subs[pos[1]])
     /\ cur.subs[pos[1]][pos[2]] = id}

\* How many times id appears in the live tree reachable from the root.
Occurrences(cur, id) ==
  Cardinality(Positions(cur, id)) + (IF cur.root = id THEN 1 ELSE 0)

\* The supervisors of id in the live tree: the objects holding it as a
\* subordinate.
SupervisorsOf(cur, id) == {n \in Reach(cur) : id \in Range(cur.subs[n])}

\* The latest call was an undo that found a record on the undo stack.
UndidAMove == call.op = "undo" /\ reverted.taken # <<>>

\* current and history as the move that was taken back had found them.
Taken == reverted.taken[1]

\* The live graph the move that was taken back had produced.
TakenResult ==
  move([current |-> Taken.current, history |-> Taken.history,
        redoStack |-> <<>>],
       Taken.employeeID, Taken.supervisorID).current

(***************************************************************************)
(* C1  Undo correctness.  Whenever a move(E, S) succeeded and undo() is    *)
(* the very next call, the live tree is afterwards deep-equal to the tree  *)
(* that was live before the move, and the undo stack is the stack the move *)
(* found.  All pairs (E, S) that succeed are covered, degenerate ones too. *)
(***************************************************************************)
C1_UndoCorrectness ==
  (UndidAMove /\ reverted.immediate) =>
    /\ DeepEqual(current, Taken.current)
    /\ history = Taken.history

\* A move of an employee under itself succeeded, changed the live tree, and
\* was undone by the next call.
C1_Witness ==
  /\ UndidAMove /\ reverted.immediate
  /\ Taken.employeeID = Taken.supervisorID
  /\ Taken.employeeID # CeoId
  /\ ~DeepEqual(TakenResult, Taken.current)
  /\ DeepEqual(current, Taken.current)

(***************************************************************************)
(* C2  Last-in-first-out undo.  Every undo() that finds a record installs  *)
(* the tree that was live just before the most recent move not yet undone  *)
(* and leaves the undo stack as that move found it; and whenever every     *)
(* move has been undone the live tree is the tree of construction.         *)
(***************************************************************************)
C2_LifoUndo ==
  /\ UndidAMove =>
       /\ DeepEqual(current, Taken.current)
       /\ history = Taken.history
  /\ history = <<>> => DeepEqual(current, ceo)

\* Two moves, each changing the tree, both undone: the second undo, which
\* does not follow its move directly, has brought back the first tree.
C2_Witness ==
  /\ UndidAMove /\ ~reverted.immediate
  /\ history = <<>>
  /\ ~DeepEqual(TakenResult, Taken.current)
  /\ DeepEqual(current, ceo)

(***************************************************************************)
(* C3  Not-found behaviour.  In every reachable state a move(E, S) whose E *)
(* or S does not resolve in the live tree ends with the not-found error    *)
(* and leaves the live tree, the undo stack and the redo stack as they     *)
(* were.                                                                   *)
(***************************************************************************)
C3_NotFoundBehaviour ==
  [][\A E \in CallIds, S \in CallIds :
       (/\ ~Resolves(current, E) \/ ~Resolves(current, S)
        /\ MoveCall(E, S))
       => /\ result' = NotFound
          /\ current' = current
          /\ history' = history
          /\ redoStack' = redoStack]_vars

(***************************************************************************)
(* C4  Move correctness.  When E is a direct subordinate of S1 in the live *)
(* tree and S2 is another employee of the live tree, move(E, S2) leaves S1 *)
(* without E and its other subordinates in their order, leaves E as the    *)
(* last subordinate of S2, and changes the subordinates of no other node.  *)
(***************************************************************************)
C4_MoveCorrectness ==
  [][\A E \in Ids, S2 \in Reach(current) :
       \A S1 \in SupervisorsOf(current, E) :
         (S2 # S1 /\ MoveCall(E, S2)) =>
            /\ current'.subs[S1] = Filter(current.subs[S1], E)
            /\ current'.subs[S2] = Append(current.subs[S2], E)
            /\ \A n \in Ids \ {S1, S2} : current'.subs[n] = current.subs[n]]_vars

(***************************************************************************)
(* C5  Uniqueness.  In every reachable state every id of the tree given to *)
(* the constructor appears exactly once in the live tree.                  *)
(***************************************************************************)
C5_Uniqueness == \A id \in Reach(ceo) : Occurrences(current, id) = 1

(***************************************************************************)
(* C6  Acyclicity.  In every reachable state no node of the live tree is   *)
(* its own descendant.                                                     *)
(***************************************************************************)
C6_Acyclicity == ~Circular(current)

\* The nodes of the live tree that are no one's subordinate.
Roots(cur) == {n \in Reach(cur) : SupervisorsOf(cur, n) = {}}

(***************************************************************************)
(* C7  Single root.  In every reachable state the live tree has exactly    *)
(* one root, the CEO, and the CEO stands in no subordinates array.         *)
(***************************************************************************)
C7_SingleRoot ==
  /\ current.root = CeoId
  /\ Roots(current) = {CeoId}
  /\ SupervisorsOf(current, CeoId) = {}

C9_UndoOnEmptyStack ==
  [][(call'.op = "undo" /\ history = <<>>)
     => /\ result' = Ok
        /\ current' = current
        /\ history' = history
        /\ redoStack' = redoStack]_vars

\* undo() was called on an empty stack: it found nothing to take back and
\* returned, the live tree being the tree of construction.
C9_Witness ==
  /\ call.op = "undo"
  /\ reverted = NoMove
  /\ pending = <<>>
  /\ history = <<>>
  /\ result = Ok
  /\ DeepEqual(current, ceo)

(***************************************************************************)
(* C10  Failure kinds of move.  In every reachable state move(E, S) fails  *)
(* exactly when E or S does not resolve in the live tree, and the          *)
(* not-found error is the only way it fails.                               *)
(***************************************************************************)
C10_FailureKinds ==
  [][\A E \in CallIds, S \in CallIds :
       MoveCall(E, S) =>
         /\ result' = Ok <=> (Resolves(current, E) /\ Resolves(current, S))
         /\ result' \in {Ok, NotFound}]_vars

(***************************************************************************)
(* C11  Termination.  In every reachable state the searches findEmployee   *)
(* and findEmployeeSupervisor over the live tree finish for every id, known *)
(* or unknown, so that each further call of move, undo or redo terminates. *)
(***************************************************************************)
C11_Termination ==
  \A id \in CallIds :
    /\ findEmployee(current.subs, current.root, id, {}) # Overflow
    /\ findEmployeeSupervisor(current.subs, current.root, id, {}) # Overflow

(***************************************************************************)
(* C12  Stack effects.  A successful move adds exactly one record, of kind *)
(* "move", on top of the undo stack and leaves the redo stack alone; an    *)
(* undo that finds a record removes exactly the top one; so the depth of   *)
(* the undo stack is the number of successful moves less the number of     *)
(* undos that found a record, which is the length of `pending`.            *)
(***************************************************************************)
C12_StackEffects ==
  /\ [](Len(history) = Len(pending))
  /\ [][/\ (call'.op = "move" /\ result' = Ok) =>
             /\ Len(history') = Len(history) + 1
             /\ SubSeq(history', 1, Len(history)) = history
             /\ history'[Len(history')].move = "move"
             /\ redoStack' = redoStack
        /\ (call'.op = "undo" /\ Len(history) > 0) =>
             history' = SubSeq(history, 1, Len(history) - 1)]_vars

\* Two moves succeeded and one was undone: one record is left.
C12_Witness ==
  /\ UndidAMove
  /\ Len(Taken.history) = 1
  /\ Len(history) = 1
  /\ Len(pending) = 1
  /\ history[1].move = "move"
  /\ redoStack = <<>>

(***************************************************************************)
(* C13  Readable ceo is the current tree.  In every reachable state the    *)
(* public field ceo equals the live tree, so that a successful move shows  *)
(* through ceo.                                                            *)
(***************************************************************************)
C13_CeoIsCurrent == DeepEqual(ceo, current)

(***************************************************************************)
(* C14  Original tree is never mutated.  The live tree starts as a deep    *)
(* copy of the root given to the constructor, equal to it and sharing no   *)
(* object with it, and no call of move, undo or redo changes the tree that *)
(* the field ceo retains.                                                  *)
(***************************************************************************)
C14_OriginalNeverMutated ==
  /\ [](call.op = "new" =>
          /\ DeepEqual(current, ceo)
          /\ origin.holder # "ceo")
  /\ [][ceo' = ceo]_vars

\* A move has changed the live tree, and the retained tree is still one of
\* the trees a caller can construct with.
C14_Witness ==
  /\ call.op = "move" /\ result = Ok
  /\ ~DeepEqual(current, pending[Len(pending)].current)
  /\ ~DeepEqual(current, ceo)
  /\ ceo \in ConstructorTrees

(***************************************************************************)
(* C15  Snapshot capture.  The record pushed by a successful move(E, S)    *)
(* holds, in order: the whole live tree as it was before the mutation; the *)
(* subtree of E's supervisor of before the move, only if E had one; E's    *)
(* subtree of before the move; S's subtree of before the move.  It has 3   *)
(* elements when E is the root and 4 otherwise.                            *)
(***************************************************************************)
C15_SnapshotCapture ==
  [][(call'.op = "move" /\ result' = Ok) =>
       LET E == call'.employeeID
           S == call'.supervisorID
           data == history'[Len(history')].undoData
           sups == SupervisorsOf(current, E)
       IN /\ DeepEqual(data[1], current)
          /\ Len(data) = IF E = current.root THEN 3 ELSE 4
          /\ IF sups = {}
             THEN /\ Len(data) = 3
                  /\ DeepEqual(data[2], Ref(current, E))
                  /\ DeepEqual(data[3], Ref(current, S))
             ELSE /\ Len(data) = 4
                  /\ \E sup \in sups : DeepEqual(data[2], Ref(current, sup))
                  /\ DeepEqual(data[3], Ref(current, E))
                  /\ DeepEqual(data[4], Ref(current, S))]_vars

\* The root was moved under another employee: the record on top of the undo
\* stack has three elements, the first being the tree of before the move.
C15_Witness ==
  /\ call.op = "move" /\ result = Ok
  /\ call.employeeID = CeoId /\ call.supervisorID # CeoId
  /\ Len(history[Len(history)].undoData) = 3
  /\ DeepEqual(history[Len(history)].undoData[1], pending[Len(pending)].current)
  /\ ~DeepEqual(current, pending[Len(pending)].current)

\* The fields of the object in the next state.
ThisNext == [current |-> current', history |-> history', redoStack |-> redoStack']

(***************************************************************************)
(* C16  Moving a node under its own subordinate.  For E in the live tree,  *)
(* not the root, and S equal to E or a descendant of E, move(E, S)         *)
(* succeeds; afterwards neither E nor any descendant of E is reachable     *)
(* from the root, a move naming any of them fails with the not-found       *)
(* error, and an immediate undo() brings back the tree of before the move. *)
(***************************************************************************)
C16_MoveUnderOwnSubordinate ==
  [][\A E \in Reach(current) \ {current.root} :
       \A S \in {E} \cup Descendants(current.subs, E) :
         MoveCall(E, S) =>
           LET lost == {E} \cup Descendants(current.subs, E)
           IN /\ result' = Ok
              /\ lost \cap Reach(current') = {}
              /\ \A id \in lost, other \in CallIds :
                   /\ move(ThisNext, id, other).result = NotFound
                   /\ move(ThisNext, other, id).result = NotFound
              /\ DeepEqual(undo(ThisNext).current, current)
              /\ undo(ThisNext).history = history]_vars

(***************************************************************************)
(* C19  Move to the current supervisor.  move(E, S1) where S1 already is   *)
(* the supervisor of E succeeds, leaves S1 with E as its last subordinate  *)
(* and its other subordinates in their previous order, changes no other    *)
(* node, and pushes one undo record.                                       *)
(***************************************************************************)
C19_MoveToCurrentSupervisor ==
  [][\A E \in Ids : \A S1 \in SupervisorsOf(current, E) :
       MoveCall(E, S1) =>
         /\ result' = Ok
         /\ current'.subs[S1] = Append(Filter(current.subs[S1], E), E)
         /\ \A n \in Ids \ {S1} : current'.subs[n] = current.subs[n]
         /\ Len(history') = Len(history) + 1]_vars

\* The live tree is well-formed: no cycle, and every node it holds stands
\* in it exactly once.
WellFormed(cur) ==
  /\ ~Circular(cur)
  /\ \A id \in Reach(cur) : Occurrences(cur, id) = 1

(***************************************************************************)
(* C17  Supervisor lookup.  On a well-formed live tree                     *)
(* findEmployeeSupervisor(root, id) returns the one node whose immediate   *)
(* subordinates hold id, and null when id is the root's id or the id of no *)
(* node of the tree.                                                       *)
(***************************************************************************)
C17_SupervisorLookup ==
  WellFormed(current) =>
    \A id \in CallIds :
      LET found == findEmployeeSupervisor(current.subs, current.root, id, {})
      IN IF id \in Reach(current) \ {current.root}
         THEN /\ found \in Reach(current)
              /\ id \in Range(current.subs[found])
              /\ SupervisorsOf(current, id) = {found}
         ELSE found = Null

\* A well-formed tree that a move produced, where the lookup has to descend:
\* some node's supervisor is not the root; the root itself has none.
C17_Witness ==
  /\ WellFormed(current)
  /\ call.op = "move" /\ result = Ok
  /\ Reach(current) = Ids
  /\ \E id \in Ids :
       findEmployeeSupervisor(current.subs, current.root, id, {})
         \in Ids \ {current.root}
  /\ findEmployeeSupervisor(current.subs, current.root, current.root, {}) = Null

(***************************************************************************)
(* C18  Well-formedness under guarded moves.  When every move(E, S) issued *)
(* has E other than the root and S neither E nor a descendant of E, the    *)
(* live tree keeps, through any sequence of move, undo and redo, the root  *)
(* and the set of ids of construction, each id exactly once, every node    *)
(* reachable from the root, and no cycle.  Checked under GuardedSpec.      *)
(***************************************************************************)
C18_GuardedWellFormed ==
  /\ current.root = ceo.root
  /\ Reach(current) = Reach(ceo)
  /\ \A id \in Reach(ceo) : Occurrences(current, id) = 1
  /\ ~Circular(current)

\* Two guarded moves have each changed the tree.
C18_Witness ==
  /\ call.op = "move" /\ result = Ok
  /\ Len(pending) = 2
  /\ ~DeepEqual(pending[1].current, pending[2].current)
  /\ ~DeepEqual(pending[2].current, current)
  /\ ~DeepEqual(current, ceo)
  /\ Reach(current) = Ids

(***************************************************************************)
(* C20  Snapshot independence.  A record on the undo stack never changes   *)
(* after it is pushed: whatever move, undo or redo does, every record that *)
(* is still on the stack afterwards is the record it was, also when the    *)
(* live tree that move changes in place was installed by an earlier undo.  *)
(***************************************************************************)
C20_SnapshotIndependence ==
  [][\A i \in 1..Len(history) :
       i <= Len(history') => history'[i] = history[i]]_vars

\* A move has changed the live tree in place while an older record stayed
\* on the stack: that record still holds the tree its own move had found,
\* which is neither the tree of before the later move nor the tree of now.
C20_Witness ==
  /\ call.op = "move" /\ result = Ok
  /\ origin = Unshared
  /\ Len(history) = 2
  /\ ~DeepEqual(current, pending[2].current)
  /\ DeepEqual(history[1].undoData[1], pending[1].current)
  /\ ~DeepEqual(history[1].undoData[1], pending[2].current)
  /\ ~DeepEqual(history[1].undoData[1], current)

====
